---- MODULE Spec2Model ----
(***************************************************************************)
(* Model of entrypoint.py (detect-nf-test-changes): the change-impact      *)
(* pipeline that maps a list of changed paths to the nf-test files (or     *)
(* their folded parent directories) that have to be re-run.                *)
(*                                                                         *)
(* Text is modelled character by character: a line is a TLA+ string and    *)
(* the str methods the code calls (strip, split, lstrip, casefold, ...)    *)
(* are operators over its characters.  A path is the sequence of its       *)
(* components (pathlib's parts); Path(".") is the empty sequence.          *)
(***************************************************************************)
EXTENDS Integers, Sequences, FiniteSets, TLC

VARIABLES
    root_path,                 \* Path(args.path)
    diff_index,                \* a_path of every entry of the two-revision diff
    ignored_files,             \* args.ignored_files
    include_files,             \* read_yaml_inverted(args.include), or <<>> without -i
    types,                     \* args.types after split(",")
    n_parents,                 \* args.n_parents
    contents,                  \* the text of every file on disk, by path
    pc,                        \* position in the __main__ block
    error,                     \* the uncaught exception that ended the run, or "none"
    changed_files,
    nf_test_files,
    changed_component_names,
    changed_component_files,
    target_tests,
    target_test_paths,
    nf_test_changed_setup,
    nf_files_changed_include,
    all_nf_tests,
    normalised_nf_tests

vars == <<root_path, diff_index, ignored_files, include_files, types, n_parents,
          contents, pc, error, changed_files, nf_test_files,
          changed_component_names, changed_component_files, target_tests,
          target_test_paths, nf_test_changed_setup, nf_files_changed_include,
          all_nf_tests, normalised_nf_tests>>

inputs == <<root_path, diff_index, ignored_files, include_files, types, n_parents,
            contents>>

-----------------------------------------------------------------------------
(* Bounds of the model.                                                    *)

\* largest fold depth (-n) tried
MaxParents == 2
\* largest number of entries in the diff
MaxChanged == 2

-----------------------------------------------------------------------------
(* Sets and sequences.                                                     *)

Min(S) == CHOOSE x \in S : \A y \in S : x <= y
Max(S) == CHOOSE x \in S : \A y \in S : x >= y
Range(s) == {s[i] : i \in 1..Len(s)}
IsPrefix(p, q) == Len(p) <= Len(q) /\ SubSeq(q, 1, Len(p)) = p

RECURSIVE SetToSeq(_)
\* list(S) for a set S: some order, the same one for the same set.
SetToSeq(S) ==
    IF S = {} THEN <<>>
    ELSE LET x == CHOOSE y \in S : TRUE IN <<x>> \o SetToSeq(S \ {x})

RECURSIVE Flatten(_)
\* The concatenation of a sequence of sequences.
Flatten(ss) == IF ss = <<>> THEN <<>> ELSE Head(ss) \o Flatten(Tail(ss))

-----------------------------------------------------------------------------
(* Python str methods, character by character.                             *)

Ch(s, i) == SubSeq(s, i, i)
Whitespace == {" ", "\t"}
Quotes == {"'", "\""}
Upper == "ABCDEFGHIJKLMNOPQRSTUVWXYZ"
Lower == "abcdefghijklmnopqrstuvwxyz"

startswith(s, p) == Len(p) <= Len(s) /\ SubSeq(s, 1, Len(p)) = p
endswith(s, p) == Len(p) <= Len(s) /\ SubSeq(s, Len(s) - Len(p) + 1, Len(s)) = p
\* sub in s
contains(s, sub) ==
    \E i \in 1..(Len(s) - Len(sub) + 1) : SubSeq(s, i, i + Len(sub) - 1) = sub

\* s.lstrip(chars), s.rstrip(chars), s.strip(chars): chars is a set of characters.
lstrip(s, chars) ==
    LET keep == {i \in 1..Len(s) : Ch(s, i) \notin chars}
    IN  IF keep = {} THEN "" ELSE SubSeq(s, Min(keep), Len(s))
rstrip(s, chars) ==
    LET keep == {i \in 1..Len(s) : Ch(s, i) \notin chars}
    IN  IF keep = {} THEN "" ELSE SubSeq(s, 1, Max(keep))
strip(s, chars) == rstrip(lstrip(s, chars), chars)

RECURSIVE splitFrom(_, _)
splitFrom(s, i) ==
    IF i > Len(s) THEN <<>>
    ELSE IF Ch(s, i) \in Whitespace THEN splitFrom(s, i + 1)
    ELSE LET sp == {j \in i..Len(s) : Ch(s, j) \in Whitespace}
             e  == IF sp = {} THEN Len(s) ELSE Min(sp) - 1
         IN  <<SubSeq(s, i, e)>> \o splitFrom(s, e + 1)
\* s.split(): the maximal runs of non-whitespace characters.
split(s) == splitFrom(s, 1)

casefoldChar(c) ==
    LET at == {i \in 1..Len(Upper) : Ch(Upper, i) = c}
    IN  IF at = {} THEN c ELSE Ch(Lower, Min(at))
RECURSIVE casefold(_)
casefold(s) ==
    IF Len(s) = 0 THEN "" ELSE casefoldChar(Ch(s, 1)) \o casefold(SubSeq(s, 2, Len(s)))

RECURSIVE replace(_, _, _)
\* s.replace(old, new) for a one-character old.
replace(s, old, new) ==
    IF Len(s) = 0 THEN ""
    ELSE (IF Ch(s, 1) = old THEN new ELSE Ch(s, 1)) \o replace(SubSeq(s, 2, Len(s)), old, new)

RECURSIVE fnmatch(_, _)
\* fnmatch.fnmatchcase(name, pat) for patterns of literals and "*".
fnmatch(name, pat) ==
    IF Len(pat) = 0 THEN Len(name) = 0
    ELSE IF Ch(pat, 1) = "*"
         THEN \/ fnmatch(name, SubSeq(pat, 2, Len(pat)))
              \/ Len(name) > 0 /\ fnmatch(SubSeq(name, 2, Len(name)), pat)
         ELSE /\ Len(name) > 0
              /\ Ch(name, 1) = Ch(pat, 1)
              /\ fnmatch(SubSeq(name, 2, Len(name)), SubSeq(pat, 2, Len(pat)))

-----------------------------------------------------------------------------
(* pathlib.  A pattern is the sequence of its components as well.          *)

parent(p) == IF p = <<>> THEN <<>> ELSE SubSeq(p, 1, Len(p) - 1)
joinpath(p, q) == p \o q
\* PurePath.match for a relative pattern: the components are matched from the right.
match(p, pat) ==
    /\ Len(pat) <= Len(p)
    /\ \A i \in 1..Len(pat) : fnmatch(p[Len(p) - Len(pat) + i], pat[i])
\* PurePath.relative_to raises ValueError unless other is a prefix of p.
is_relative_to(p, other) == IsPrefix(other, p)
relative_to(p, other) == SubSeq(p, Len(other) + 1, Len(p))

-----------------------------------------------------------------------------
(* The file tree.  contents maps the path of every file to its lines; a    *)
(* directory is a proper prefix of a file's path.  Only files carry the    *)
(* *.nf and *.nf.test names in the trees of this model.                    *)

is_file(p) == p \in DOMAIN contents
is_dir(p) == \E f \in DOMAIN contents : IsPrefix(p, f) /\ p # f
exists(p) == is_file(p) \/ is_dir(p)
name(p) == IF p = <<>> THEN "" ELSE p[Len(p)]
\* The entries of directory d.
iterdir(d) ==
    {SubSeq(f, 1, Len(d) + 1) : f \in {g \in DOMAIN contents : IsPrefix(d, g) /\ g # d}}

RECURSIVE rglobDirs(_, _)
\* Path.rglob(pat) over a list of directories: the matching entries of each
\* directory, then those of its subdirectories.  scandir's order is not
\* specified; SetToSeq fixes one.
rglobDirs(dirs, pat) ==
    IF dirs = <<>> THEN <<>>
    ELSE LET d    == Head(dirs)
             hits == SetToSeq({c \in iterdir(d) : fnmatch(name(c), pat)})
             subs == SetToSeq({c \in iterdir(d) : is_dir(c)})
         IN  hits \o rglobDirs(subs, pat) \o rglobDirs(Tail(dirs), pat)
rglob(d, pat) == rglobDirs(<<d>>, pat)

-----------------------------------------------------------------------------
(* The functions of entrypoint.py.                                         *)

\* find_changed_files comparing each path with the ignore entries literally
\* instead of matching them as globs.
find_changed_files_literal(path, diff, ignore) ==
    SetToSeq({joinpath(path, filepath) :
                filepath \in {f \in Range(diff) :
                                ~\E k \in 1..Len(ignore) : f = ignore[k]}})

\* find_changed_files: the diff's paths that match no ignore pattern, joined
\* to the root, as list(set(...)).
find_changed_files(path, diff, ignore) ==
    SetToSeq({joinpath(path, filepath) :
                filepath \in {f \in Range(diff) :
                                ~\E k \in 1..Len(ignore) : match(f, ignore[k])}})

RECURSIVE detect_include_files(_, _)
\* detect_include_files: Path(include_key), not joined to the root, for every
\* changed file and every include pattern it matches.
detect_include_files(changed, includes) ==
    IF changed = <<>> THEN <<>>
    ELSE LET hit == SelectSeq(includes, LAMBDA e : match(Head(changed), e.include_path))
         IN  [i \in 1..Len(hit) |-> hit[i].include_key]
             \o detect_include_files(Tail(changed), includes)

RECURSIVE detect_files_glob(_, _)
\* detect_files searching the parent directory of a file with glob, which
\* does not descend.
detect_files_glob(paths, suffix) ==
    IF paths = <<>> THEN <<>>
    ELSE LET path == Head(paths)
             found == IF match(path, <<suffix>>) /\ exists(path) THEN <<path>>
                      ELSE IF is_dir(path) THEN rglob(path, suffix)
                      ELSE IF is_file(path)
                           THEN SetToSeq({c \in iterdir(parent(path)) :
                                            fnmatch(name(c), suffix)})
                      ELSE <<>>
         IN  found \o detect_files_glob(Tail(paths), suffix)

RECURSIVE detect_files(_, _)
detect_files(paths, suffix) ==
    IF paths = <<>> THEN <<>>
    ELSE LET path == Head(paths)
             found == IF match(path, <<suffix>>) /\ exists(path) THEN <<path>>
                      ELSE IF is_dir(path) THEN rglob(path, suffix)
                      ELSE IF is_file(path) THEN rglob(parent(path), suffix)
                      ELSE <<>>
         IN  found \o detect_files(Tail(paths), suffix)

\* The condition of find_test_type on one line.
isDeclaration(line) ==
    LET words == split(line)
    IN  /\ \E kw \in {"workflow", "process", "function"} : startswith(strip(line, Whitespace), kw)
        /\ Len(words) = 2
        /\ Len(words[2]) >= 2 /\ startswith(words[2], "\"") /\ endswith(words[2], "\"")

find_test_type(lines) ==
    LET at == {i \in 1..Len(lines) : isDeclaration(lines[i])}
    IN  IF at = {} THEN [keyword |-> "pipeline", name |-> "PIPELINE"]
        ELSE LET words == split(lines[Min(at)])
             IN  [keyword |-> words[1], name |-> strip(words[2], Quotes)]

\* find_run_statements without the .casefold() of line 273.
find_run_statements_nofold(lines) ==
    LET runs == SelectSeq(lines, LAMBDA line : startswith(strip(line, Whitespace), "run"))
    IN  [i \in 1..Len(runs) |->
            strip(rstrip(lstrip(split(strip(runs[i], Whitespace))[1],
                                {"r", "u", "n", "("}),
                         {")"}),
                  Quotes)]

find_run_statements(lines) ==
    LET runs == SelectSeq(lines, LAMBDA line : startswith(strip(line, Whitespace), "run"))
    IN  [i \in 1..Len(runs) |->
            casefold(strip(rstrip(lstrip(split(strip(runs[i], Whitespace))[1],
                                         {"r", "u", "n", "("}),
                                  {")"}),
                           Quotes))]

\* find_include_statements: line.split()[2] raises IndexError on a line that
\* holds "include {" and fewer than three words.
find_include_statements(lines) ==
    LET incs == SelectSeq(lines, LAMBDA line : contains(line, "include {"))
    IN  IF \E i \in 1..Len(incs) : Len(split(incs[i])) < 3
        THEN [raised |-> TRUE, value |-> <<>>]
        ELSE [raised |-> FALSE,
              value |-> [i \in 1..Len(incs) |->
                           casefold(replace(strip(split(incs[i])[3], Quotes), "/", "_"))]]

DefaultTypes == <<"function", "process", "workflow", "pipeline">>

RECURSIVE classifyFrom(_, _)
\* The loop of convert_nf_test_files_to_test_types over the remaining files.
classifyFrom(files, acc) ==
    IF files = <<>> THEN acc
    ELSE LET file == Head(files)
             tt   == find_test_type(contents[file])
             next ==
                 IF tt.keyword \in Range(DefaultTypes)
                 THEN [names |-> [acc.names EXCEPT ![tt.keyword] = Append(@, tt.name)],
                       files |-> [acc.files EXCEPT ![tt.keyword] = Append(@, file)]]
                 ELSE [names |-> (tt.keyword :> <<tt.name>>) @@ acc.names,
                       files |-> (tt.keyword :> <<file>>) @@ acc.files]
         IN  classifyFrom(Tail(files), next)

convert_nf_test_files_to_test_types(files) ==
    classifyFrom(files, [names |-> [key \in Range(DefaultTypes) |-> <<>>],
                         files |-> [key \in Range(DefaultTypes) |-> <<>>]])

\* anyTagIn without the .replace("/", "_") of the tag.
anyTagIn_noreplace(tags, deps) ==
    \E t \in 1..Len(tags) : casefold(tags[t]) \in Range(deps)

\* The test of both dependency scans: some tag, folded and with "/" replaced
\* by "_", is among the file's dependencies.
anyTagIn(tags, deps) ==
    \E t \in 1..Len(tags) : replace(casefold(tags[t]), "/", "_") \in Range(deps)

find_nf_tests_with_changed_dependencies(paths, tags) ==
    SelectSeq(detect_files(paths, "*.nf.test"),
              LAMBDA nf_test_file : anyTagIn(tags, find_run_statements(contents[nf_test_file])))

\* find_nf_files_with_changed_dependencies taking every file that includes
\* anything, whatever the tags.
find_nf_files_with_any_dependencies(paths, tags) ==
    LET nf_files == detect_files(paths, "*.nf")
    IN  IF \E f \in Range(nf_files) : find_include_statements(contents[f]).raised
        THEN [raised |-> TRUE, value |-> <<>>]
        ELSE [raised |-> FALSE,
              value |-> detect_files(
                  SelectSeq(nf_files,
                            LAMBDA nf_file :
                                find_include_statements(contents[nf_file]).value # <<>>),
                  "*.nf.test")]

find_nf_files_with_changed_dependencies(paths, tags) ==
    LET nf_files == detect_files(paths, "*.nf")
    IN  IF \E f \in Range(nf_files) : find_include_statements(contents[f]).raised
        THEN [raised |-> TRUE, value |-> <<>>]
        ELSE [raised |-> FALSE,
              value |-> detect_files(
                  SelectSeq(nf_files,
                            LAMBDA nf_file :
                                anyTagIn(tags, find_include_statements(contents[nf_file]).value)),
                  "*.nf.test")]

\* get_target_tests returning the results of every type.
get_target_tests_all(results, targets) ==
    Flatten([i \in 1..Cardinality(DOMAIN results) |->
                results[SetToSeq(DOMAIN results)[i]]])

RECURSIVE get_target_tests(_, _)
get_target_tests(results, targets) ==
    IF targets = <<>> THEN <<>>
    ELSE (IF Head(targets) \in DOMAIN results THEN results[Head(targets)] ELSE <<>>)
         \o get_target_tests(results, Tail(targets))

\* get_parents dropping the n leading components instead of the n trailing.
get_parents_front(path, n) == SubSeq(path, n + 1, Len(path))

RECURSIVE get_parents(_, _)
get_parents(path, n) == IF n = 0 THEN path ELSE get_parents(parent(path), n - 1)

\* The three roots both dependency scans search.
searchRoots(root) ==
    <<joinpath(root, <<"modules">>), joinpath(root, <<"subworkflows">>),
      joinpath(root, <<"workflows">>)>>

-----------------------------------------------------------------------------
(* The inputs: a repository of four components and the command line.       *)
(*                                                                         *)
(*   modules/a          the component the diff touches (unit A)            *)
(*   workflows/b        B, whose main.nf may include A                     *)
(*   workflows/b/c      C, below B's directory, whose main.nf includes B   *)
(*   subworkflows/d     D, whose main.nf may include B and whose test may  *)
(*                      run A in its setup                                 *)
(*   main.nf.test       the pipeline's test, at the root of the repository *)
(*   shared             a directory of the working directory               *)

Q == "\""
DeclLine(kw, nm) == "    " \o kw \o " " \o Q \o nm \o Q
RunLine(t) == "        run(" \o Q \o t \o Q \o ") {"
OneLineSetup(t) == "    setup { run(" \o Q \o t \o Q \o ") }"
IncludeLine(t) == "include { " \o t \o " } from './x'"
MultiLineInclude(t) == <<"include {", "    " \o t, "} from './x'">>

TestText(kw, nm, setup) == <<DeclLine(kw, nm)>> \o setup
SetupBlock(t) == <<"    setup {", RunLine(t), "    }">>

\* What the text of the repository's files may be.
DeclKeywords == {"process", "processes"}
DeclNames == {"FOO", "foo_bar", "foo/bar"}
IncludeTexts == {<<>>, <<IncludeLine("FOO")>>, <<IncludeLine("Foo/Bar")>>}
NestedIncludeTexts == {<<IncludeLine("BAZ")>>, MultiLineInclude("BAZ")}
SetupTexts ==
    {<<>>, <<OneLineSetup("FOO")>>}
    \cup {SetupBlock(t) : t \in {"FOO", "Foo/Bar", "Foo_Bar"}}

\* The repository's files, by path relative to its root.
Repository(kwA, nmA, incB, kwB, incC, setupD) ==
    (<<"modules", "a", "main.nf">> :> <<"process " \o nmA \o " {">>)
    @@ (<<"modules", "a", "main.nf.test">> :> TestText(kwA, nmA, <<>>))
    @@ (<<"modules", "a", "README.md">> :> <<"# a">>)
    @@ (<<"workflows", "b", "main.nf">> :> incB \o <<"workflow BAZ {">>)
    @@ (<<"workflows", "b", "main.nf.test">> :> TestText(kwB, "BAZ", <<>>))
    @@ (<<"workflows", "b", "c", "main.nf">> :> incC \o <<"workflow QUX {">>)
    @@ (<<"workflows", "b", "c", "main.nf.test">> :> TestText("workflow", "QUX", <<>>))
    @@ (<<"subworkflows", "d", "main.nf">> :> <<IncludeLine("BAZ"), "workflow D {">>)
    @@ (<<"subworkflows", "d", "main.nf.test">> :> TestText("workflow", "D", setupD))
    @@ (<<"main.nf.test">> :> <<"nextflow_pipeline {">>)

\* The files on disk by path from the working directory: the repository
\* under root, and shared/ beside it.
Disk(root, repo) ==
    [p \in {joinpath(root, r) : r \in DOMAIN repo} |-> repo[relative_to(p, root)]]
    @@ (<<"shared", "main.nf.test">> :> TestText("process", "SHARED", <<>>))

Trees(root) ==
    {Disk(root, Repository(kwA, nmA, incB, kwB, incC, setupD)) :
        kwA \in DeclKeywords, nmA \in DeclNames, incB \in IncludeTexts,
        kwB \in {"workflow", "processes"}, incC \in NestedIncludeTexts,
        setupD \in SetupTexts}

OneTree(root) ==
    Disk(root, Repository("process", "FOO", <<>>, "workflow",
                          <<IncludeLine("BAZ")>>, SetupBlock("FOO")))

Roots == {<<>>, <<"repo">>}
\* The paths a diff may name.
DiffPaths ==
    {<<"modules", "a", "main.nf.test">>, <<"modules", "a", "README.md">>,
     <<"workflows", "b", "main.nf">>, <<"workflows", "b", "main.nf.test">>,
     <<"main.nf.test">>}
Diffs == {SetToSeq(S) : S \in {T \in SUBSET DiffPaths : Cardinality(T) <= MaxChanged}}
IgnoreLists == {<<>>, <<<<".git", "*">>, <<"*.md">>>>}
IncludeMaps == {<<>>, <<[include_path |-> <<"*.md">>, include_key |-> <<"shared">>]>>}
\* args.types passes the check of lines 444-450.
TypeLists == {<<"process">>, <<"workflow">>, DefaultTypes}

\* Many texts under a few command lines.
InitTexts ==
    /\ root_path = <<"repo">>
    /\ contents \in Trees(root_path)
    /\ diff_index \in {<<<<"modules", "a", "main.nf.test">>>>,
                       <<<<"modules", "a", "main.nf.test">>,
                         <<"workflows", "b", "main.nf.test">>>>}
    /\ ignored_files = <<>>
    /\ include_files = <<>>
    /\ types = DefaultTypes
    /\ n_parents = 0

\* Many command lines over a few texts.
InitArgs ==
    /\ root_path \in Roots
    /\ contents = OneTree(root_path)
    /\ diff_index \in Diffs
    /\ ignored_files \in IgnoreLists
    /\ include_files \in IncludeMaps
    /\ types \in TypeLists
    /\ n_parents \in 0..MaxParents

Init ==
    /\ InitTexts \/ InitArgs
    /\ pc = "find_changed_files"
    /\ error = "none"
    /\ changed_files = <<>>
    /\ nf_test_files = <<>>
    /\ changed_component_names = <<>>
    /\ changed_component_files = <<>>
    /\ target_tests = <<>>
    /\ target_test_paths = <<>>
    /\ nf_test_changed_setup = <<>>
    /\ nf_files_changed_include = <<>>
    /\ all_nf_tests = {}
    /\ normalised_nf_tests = {}

-----------------------------------------------------------------------------
(* The __main__ block, statement by statement.                             *)

\* lines 458-460
FindChangedFiles ==
    /\ pc = "find_changed_files"
    /\ changed_files' = find_changed_files(root_path, diff_index, ignored_files)
    /\ pc' = "detect_include_files"
    /\ UNCHANGED <<inputs, error, nf_test_files, changed_component_names,
                   changed_component_files, target_tests, target_test_paths,
                   nf_test_changed_setup, nf_files_changed_include, all_nf_tests,
                   normalised_nf_tests>>

\* lines 463-467
DetectIncludeFiles ==
    /\ pc = "detect_include_files"
    /\ changed_files' = changed_files \o detect_include_files(changed_files, include_files)
    /\ pc' = "detect_files"
    /\ UNCHANGED <<inputs, error, nf_test_files, changed_component_names,
                   changed_component_files, target_tests, target_test_paths,
                   nf_test_changed_setup, nf_files_changed_include, all_nf_tests,
                   normalised_nf_tests>>

\* line 468
DetectFiles ==
    /\ pc = "detect_files"
    /\ nf_test_files' = detect_files(changed_files, "*.nf.test")
    /\ pc' = "convert"
    /\ UNCHANGED <<inputs, error, changed_files, changed_component_names,
                   changed_component_files, target_tests, target_test_paths,
                   nf_test_changed_setup, nf_files_changed_include, all_nf_tests,
                   normalised_nf_tests>>

\* lines 469-471
Convert ==
    /\ pc = "convert"
    /\ LET r == convert_nf_test_files_to_test_types(nf_test_files)
       IN  /\ changed_component_names' = r.names
           /\ changed_component_files' = r.files
    /\ pc' = "get_target_tests"
    /\ UNCHANGED <<inputs, error, changed_files, nf_test_files, target_tests,
                   target_test_paths, nf_test_changed_setup, nf_files_changed_include,
                   all_nf_tests, normalised_nf_tests>>

\* lines 474-475
GetTargetTests ==
    /\ pc = "get_target_tests"
    /\ target_tests' = get_target_tests(changed_component_names, types)
    /\ target_test_paths' = get_target_tests(changed_component_files, types)
    /\ pc' = "setup_scan"
    /\ UNCHANGED <<inputs, error, changed_files, nf_test_files, changed_component_names,
                   changed_component_files, nf_test_changed_setup,
                   nf_files_changed_include, all_nf_tests, normalised_nf_tests>>

\* lines 478-481
SetupScan ==
    /\ pc = "setup_scan"
    /\ nf_test_changed_setup' =
           find_nf_tests_with_changed_dependencies(searchRoots(root_path), target_tests)
    /\ pc' = "include_scan"
    /\ UNCHANGED <<inputs, error, changed_files, nf_test_files, changed_component_names,
                   changed_component_files, target_tests, target_test_paths,
                   nf_files_changed_include, all_nf_tests, normalised_nf_tests>>

\* lines 484-487, returning
IncludeScan ==
    /\ pc = "include_scan"
    /\ LET r == find_nf_files_with_changed_dependencies(searchRoots(root_path), target_tests)
       IN  /\ ~r.raised
           /\ nf_files_changed_include' = r.value
    /\ pc' = "get_parents"
    /\ UNCHANGED <<inputs, error, changed_files, nf_test_files, changed_component_names,
                   changed_component_files, target_tests, target_test_paths,
                   nf_test_changed_setup, all_nf_tests, normalised_nf_tests>>

\* lines 484-487, ending the run with the IndexError of line 292
IncludeScanRaises ==
    /\ pc = "include_scan"
    /\ find_nf_files_with_changed_dependencies(searchRoots(root_path), target_tests).raised
    /\ pc' = "failed"
    /\ error' = "IndexError"
    /\ UNCHANGED <<inputs, changed_files, nf_test_files, changed_component_names,
                   changed_component_files, target_tests, target_test_paths,
                   nf_test_changed_setup, nf_files_changed_include, all_nf_tests,
                   normalised_nf_tests>>

\* The set comprehension of lines 490-497.
foldAll(paths, n) == {get_parents(paths[i], n) : i \in 1..Len(paths)}

\* lines 490-497
GetParents ==
    /\ pc = "get_parents"
    /\ all_nf_tests' =
           foldAll(target_test_paths \o nf_test_changed_setup \o nf_files_changed_include,
                   n_parents)
    /\ pc' = "relative_to"
    /\ UNCHANGED <<inputs, error, changed_files, nf_test_files, changed_component_names,
                   changed_component_files, target_tests, target_test_paths,
                   nf_test_changed_setup, nf_files_changed_include, normalised_nf_tests>>

\* lines 500-502, returning; the list is kept as the set of its elements
RelativeTo ==
    /\ pc = "relative_to"
    /\ \A p \in all_nf_tests : is_relative_to(p, root_path)
    /\ normalised_nf_tests' = {relative_to(p, root_path) : p \in all_nf_tests}
    /\ pc' = "done"
    /\ UNCHANGED <<inputs, error, changed_files, nf_test_files, changed_component_names,
                   changed_component_files, target_tests, target_test_paths,
                   nf_test_changed_setup, nf_files_changed_include, all_nf_tests>>

\* lines 500-502, ending the run with relative_to's ValueError
RelativeToRaises ==
    /\ pc = "relative_to"
    /\ \E p \in all_nf_tests : ~is_relative_to(p, root_path)
    /\ pc' = "failed"
    /\ error' = "ValueError"
    /\ UNCHANGED <<inputs, changed_files, nf_test_files, changed_component_names,
                   changed_component_files, target_tests, target_test_paths,
                   nf_test_changed_setup, nf_files_changed_include, all_nf_tests,
                   normalised_nf_tests>>

Next ==
    \/ FindChangedFiles
    \/ DetectIncludeFiles
    \/ DetectFiles
    \/ Convert
    \/ GetTargetTests
    \/ SetupScan
    \/ IncludeScan
    \/ IncludeScanRaises
    \/ GetParents
    \/ RelativeTo
    \/ RelativeToRaises

Spec == Init /\ [][Next]_vars

-----------------------------------------------------------------------------
(* The __main__ block as one function of its inputs, for the properties    *)
(* that compare two runs.                                                  *)

Run(root, diff, ignore, includes, typs, n) ==
    LET changed0 == find_changed_files(root, diff, ignore)
        changed  == changed0 \o detect_include_files(changed0, includes)
        r        == convert_nf_test_files_to_test_types(detect_files(changed, "*.nf.test"))
        tags     == get_target_tests(r.names, typs)
        paths    == get_target_tests(r.files, typs)
        setup    == find_nf_tests_with_changed_dependencies(searchRoots(root), tags)
        inc      == find_nf_files_with_changed_dependencies(searchRoots(root), tags)
        folded   == foldAll(paths \o setup \o inc.value, n)
    IN  IF inc.raised THEN [error |-> "IndexError", out |-> {}]
        ELSE IF \E q \in folded : ~is_relative_to(q, root)
             THEN [error |-> "ValueError", out |-> {}]
             ELSE [error |-> "none", out |-> {relative_to(q, root) : q \in folded}]

-----------------------------------------------------------------------------
(* Vocabulary of the properties, stated on the text of the files and not   *)
(* through the scanners of the code.                                       *)

setupScanReturned == pc \in {"include_scan", "get_parents", "relative_to", "done", "failed"}
includeScanEnded == pc \in {"get_parents", "relative_to", "done", "failed"}
classified == pc \notin {"find_changed_files", "detect_include_files", "detect_files", "convert"}
located == pc \notin {"find_changed_files", "detect_include_files", "detect_files"}

underSearchRoots(f) == \E i \in 1..3 : IsPrefix(searchRoots(root_path)[i], f)
\* The test-definition and the implementation files below the three roots.
TestFiles == {f \in DOMAIN contents : underSearchRoots(f) /\ fnmatch(name(f), "*.nf.test")}
ImplFiles == {f \in DOMAIN contents : underSearchRoots(f) /\ fnmatch(name(f), "*.nf")}
siblingTests(f) == {t \in DOMAIN contents : parent(t) = parent(f) /\ fnmatch(name(t), "*.nf.test")}
normalise(nm) == replace(casefold(nm), "/", "_")

\* line is `include { U } from ...`
isIncludeOf(line, U) == startswith(line, "include { " \o U \o " } from ")
\* The X of a line whose first word is run("X"), as a one-element set.
runTargets(line) ==
    LET w == split(line)
    IN  IF /\ w # <<>>
           /\ Len(w[1]) >= 7
           /\ startswith(w[1], "run(" \o Q)
           /\ endswith(w[1], Q \o ")")
        THEN {SubSeq(w[1], 6, Len(w[1]) - 2)}
        ELSE {}
\* The text holds setup { run("U") }, on one line or with run on the next.
holdsSetupRun(lines, U) ==
    \E i \in 1..Len(lines) :
        \/ contains(lines[i], "setup { run(" \o Q \o U \o Q \o ") }")
        \/ /\ i < Len(lines)
           /\ endswith(lines[i], "setup {")
           /\ U \in runTargets(lines[i + 1])
\* The text names U anywhere, whatever the case and the separator.
mentions(lines, U) == \E i \in 1..Len(lines) : contains(normalise(lines[i]), normalise(U))
\* The words of line are `include { X ...` with X naming U.
includesUnit(lines, U) ==
    \E i \in 1..Len(lines) :
        LET w == split(lines[i])
        IN  Len(w) >= 3 /\ w[1] = "include" /\ w[2] = "{" /\ normalise(w[3]) = normalise(U)
declared(f) == find_test_type(contents[f])
outcome == [error |-> error, out |-> normalised_nf_tests]

-----------------------------------------------------------------------------
(* C1.  Include-dependency resolution.                                     *)

\* C1: once the include scan has been called, for every changed unit name U
\* and every implementation file F below the three roots with a line
\* `include { U } from ...`, the scan has returned and every *.nf.test
\* sibling of F is in its result.
C1_IncludeDependency ==
    includeScanEnded =>
        \A U \in Range(target_tests) : \A F \in ImplFiles :
            (\E i \in 1..Len(contents[F]) : isIncludeOf(contents[F][i], U)) =>
                /\ error # "IndexError"
                /\ siblingTests(F) \subseteq Range(nf_files_changed_include)

\* The same, for the runs in which the scan returns: the only way C1 fails
\* is the IndexError.
IncludeDependencyWhenReturned ==
    (includeScanEnded /\ error # "IndexError") =>
        \A U \in Range(target_tests) : \A F \in ImplFiles :
            (\E i \in 1..Len(contents[F]) : isIncludeOf(contents[F][i], U)) =>
                siblingTests(F) \subseteq Range(nf_files_changed_include)

-----------------------------------------------------------------------------
(* C2.  Setup-dependency resolution.                                       *)

-----------------------------------------------------------------------------
(* C3.  Normalisation of the run edge.                                     *)

\* C3, as claimed: a run("X") line matches a changed unit name when the two
\* are equal after lowercasing and replacing "/" by "_" in both.
C3_RunMatchingBothSides ==
    setupScanReturned =>
        \A U \in Range(target_tests) : \A T \in TestFiles :
            (\E i \in 1..Len(contents[T]) : \E X \in runTargets(contents[T][i]) :
                normalise(X) = normalise(U))
            => T \in Range(nf_test_changed_setup)

\* C3, amended: a test-definition file whose run lines all start with the
\* word run("X") is returned by the setup scan exactly when some X, only
\* lowercased, equals some changed unit name lowercased with "/" replaced
\* by "_": the separator is normalised in the unit name alone.
C3_RunMatchingOneSided ==
    setupScanReturned =>
        \A T \in TestFiles :
            (\A i \in 1..Len(contents[T]) :
                startswith(strip(contents[T][i], Whitespace), "run")
                    => runTargets(contents[T][i]) # {})
            => (T \in Range(nf_test_changed_setup)
                <=> \E U \in Range(target_tests) : \E i \in 1..Len(contents[T]) :
                        \E X \in runTargets(contents[T][i]) : casefold(X) = normalise(U))

\* run("Foo_Bar") is matched by the changed unit foo/bar.
C3_Witness ==
    /\ setupScanReturned
    /\ "foo/bar" \in Range(target_tests)
    /\ \E T \in TestFiles :
        /\ \E i \in 1..Len(contents[T]) : "Foo_Bar" \in runTargets(contents[T][i])
        /\ T \in Range(nf_test_changed_setup)

-----------------------------------------------------------------------------
(* C4.  Single hop.                                                        *)

\* Every directly changed test-definition file declares A, B's
\* implementation file FB includes A, C's implementation file FC (in another
\* directory) includes B and its test-definition file TC is beside it, and
\* neither file of C names A.
singleHopCase(A, FB, FC, TC) ==
    /\ Range(target_tests) = {A}
    /\ \A t \in Range(nf_test_files) : declared(t).name = A
    /\ includesUnit(contents[FB], A)
    /\ \E TB \in siblingTests(FB) : includesUnit(contents[FC], declared(TB).name)
    /\ parent(FC) # parent(FB)
    /\ TC \in siblingTests(FC)
    /\ ~mentions(contents[FC], A)
    /\ ~mentions(contents[TC], A)

\* C4, as claimed: C's test-definition file is not in the output at fold
\* depth 0, wherever C's directory lies.
C4_SingleHop ==
    (pc = "done" /\ n_parents = 0) =>
        \A A \in Range(target_tests) : \A FB \in ImplFiles : \A FC \in ImplFiles :
            \A TC \in TestFiles :
                singleHopCase(A, FB, FC, TC)
                    => relative_to(TC, root_path) \notin normalised_nf_tests

\* C4, amended: C's test-definition file is not in the output at fold depth
\* 0 provided it lies neither in nor below the directory of an
\* implementation file that includes A.
C4_SingleHopOutsideIncluders ==
    (pc = "done" /\ n_parents = 0) =>
        \A A \in Range(target_tests) : \A FB \in ImplFiles : \A FC \in ImplFiles :
            \A TC \in TestFiles :
                (/\ singleHopCase(A, FB, FC, TC)
                 /\ \A F \in ImplFiles :
                        includesUnit(contents[F], A) => ~IsPrefix(parent(F), TC))
                    => relative_to(TC, root_path) \notin normalised_nf_tests

\* A changed, B includes A and its test is in the output, C elsewhere
\* includes B and its test is not.
C4_Witness ==
    /\ pc = "done"
    /\ n_parents = 0
    /\ \E A \in Range(target_tests) : \E FB \in ImplFiles : \E FC \in ImplFiles :
        \E TC \in TestFiles :
            /\ singleHopCase(A, FB, FC, TC)
            /\ \A F \in ImplFiles : includesUnit(contents[F], A) => ~IsPrefix(parent(F), TC)
            /\ \E TB \in siblingTests(FB) : relative_to(TB, root_path) \in normalised_nf_tests
            /\ relative_to(TC, root_path) \notin normalised_nf_tests

-----------------------------------------------------------------------------
(* C5.  Type filtering.                                                    *)

isWorkflowTest(f) ==
    is_file(f) /\ fnmatch(name(f), "*.nf.test") /\ declared(f).keyword = "workflow"

\* C5: with -t process, a test-definition file that declares a workflow is
\* in the output only if the setup scan or the include scan returned it.
C5_TypeFiltering ==
    (pc = "done" /\ types = <<"process">>) =>
        \A rel \in normalised_nf_tests :
            isWorkflowTest(joinpath(root_path, rel)) =>
                joinpath(root_path, rel)
                    \in Range(nf_test_changed_setup) \cup Range(nf_files_changed_include)

\* With -t process, one changed workflow test is left out and another
\* workflow test is in the output through a scan.
C5_Witness ==
    /\ pc = "done"
    /\ types = <<"process">>
    /\ n_parents = 0
    /\ \E f \in Range(nf_test_files) :
        isWorkflowTest(f) /\ relative_to(f, root_path) \notin normalised_nf_tests
    /\ \E rel \in normalised_nf_tests : isWorkflowTest(joinpath(root_path, rel))

-----------------------------------------------------------------------------
(* C6.  Ignore correctness.                                                *)

ignoredPath(f) == \E k \in 1..Len(ignored_files) : match(f, ignored_files[k])
keptDiff == SelectSeq(diff_index, LAMBDA f : ~ignoredPath(f))

\* C6: the run ends as the run on the diff without its ignored paths and
\* with no ignore pattern ends: the same exception or the same output.
C6_IgnoreCorrectness ==
    pc \in {"done", "failed"} =>
        outcome = Run(root_path, keptDiff, <<>>, include_files, types, n_parents)

\* An ignored path of the diff that would have changed the output.
C6_Witness ==
    /\ pc = "done"
    /\ \E i \in 1..Len(diff_index) : ignoredPath(diff_index[i])
    /\ normalised_nf_tests # {}
    /\ LET all == Run(root_path, diff_index, <<>>, include_files, types, n_parents)
       IN  all.error = "none" /\ all.out # normalised_nf_tests

-----------------------------------------------------------------------------
(* C7.  The output is relative to the root.                                *)

\* C7: every path handed to relative_to lies at or under the root, and the
\* run does not end with its ValueError.
C7_OutputUnderRoot ==
    /\ pc = "relative_to" => \A q \in all_nf_tests : is_relative_to(q, root_path)
    /\ error # "ValueError"

-----------------------------------------------------------------------------
(* C8.  Fold monotonicity.                                                 *)

\* C8: every path of the output at depth n_parents is an ancestor of, or
\* equal to, a path of the output of the same inputs at every smaller depth.
C8_FoldMonotonicity ==
    pc = "done" =>
        \A d1 \in 0..(n_parents - 1) :
            LET r1 == Run(root_path, diff_index, ignored_files, include_files, types, d1)
            IN  /\ r1.error = "none"
                /\ \A q \in normalised_nf_tests : \E q1 \in r1.out : IsPrefix(q, q1)

\* Two files of the output at depth 0 fold into one directory at depth 2.
C8_Witness ==
    /\ pc = "done"
    /\ n_parents = 2
    /\ \E q \in normalised_nf_tests :
        Cardinality({q0 \in Run(root_path, diff_index, ignored_files, include_files,
                                types, 0).out : IsPrefix(q, q0) /\ q0 # q}) >= 2

-----------------------------------------------------------------------------
(* C9.  detect_files on a file that does not match the suffix.             *)

oneOtherFile ==
    /\ located
    /\ Len(changed_files) = 1
    /\ is_file(changed_files[1])
    /\ ~match(changed_files[1], <<"*.nf.test">>)

\* C9, as claimed: the result is exactly the matching files directly in the
\* file's parent directory.
C9_LocateInParentOnly ==
    oneOtherFile =>
        Range(nf_test_files) =
            {f \in DOMAIN contents :
                parent(f) = parent(changed_files[1]) /\ fnmatch(name(f), "*.nf.test")}

\* C9, amended: the result is exactly the matching files in the file's
\* parent directory or in any directory below it.
C9_LocateBelowParent ==
    oneOtherFile =>
        Range(nf_test_files) =
            {f \in DOMAIN contents :
                IsPrefix(parent(changed_files[1]), f) /\ fnmatch(name(f), "*.nf.test")}

\* A file beside the changed file and a file of a subdirectory are found.
C9_Witness ==
    /\ oneOtherFile
    /\ \E f \in Range(nf_test_files) : parent(f) = parent(changed_files[1])
    /\ \E f \in Range(nf_test_files) :
        parent(f) # parent(changed_files[1]) /\ IsPrefix(parent(changed_files[1]), f)

-----------------------------------------------------------------------------
(* C10.  The classifier keeps every file.                                  *)

\* C10: after the classification every classified file is in the file list
\* of its type and its name is in the name list of that type.
C10_ClassifierKeepsAll ==
    classified =>
        \A f \in Range(nf_test_files) :
            /\ declared(f).keyword \in DOMAIN changed_component_files
            /\ f \in Range(changed_component_files[declared(f).keyword])
            /\ declared(f).name \in Range(changed_component_names[declared(f).keyword])

====
